---------------------------- MODULE Spec2Model ----------------------------
(***************************************************************************)
(* QDrantIngest: the region extraction of qdrantingest/image_processor.py, *)
(* the batch loop of main.py and the collection handling of                *)
(* qdrantingest/qdrant_uploader.py.                                        *)
(*                                                                         *)
(* Coordinates of a COCO bounding box are Python floats.  A float is       *)
(* modelled in half pixels: the integer v stands for the float v / 2, so   *)
(* 3 is 1.5 and -1 is -0.5.  Pixel positions and sizes of images and       *)
(* regions are whole numbers of pixels.                                    *)
(***************************************************************************)
EXTENDS Integers, Sequences, FiniteSets, TLC

VARIABLES
    \* one call of ImageProcessor.crop_object / _crop_by_bbox
    use_segmentation,   \* ImageProcessor.use_segmentation
    file,               \* the file images_dir / image_filename of the call
    image,              \* what load_image returned for the call's file
    bbox,               \* the bbox argument (None, or a list of floats)
    segmentation,       \* the segmentation argument (None, or a list of polygons)
    mask,               \* the set pixels of the mask of _crop_by_segmentation
    mode,               \* the branch crop_object took
    result,             \* the returned region, or None
    loads,              \* the number of load_image calls made
    cpc,                \* position of the call: "call" -> "returned"
    \* one run of main()
    coco_data,          \* what CocoParser.parse returned
    batch_size,         \* args.batch_size
    pc,                 \* position of main
    i,                  \* the variable i of both for loops
    next_i,             \* the next value of range(0, total_objects, batch_size)
    batch_annotations,  \* the slice of the current batch
    cropped_objects,    \* the survivors of the extraction of the current batch
    embeddings,         \* what generate_embeddings returned for the batch
    upload_objects,     \* the records built for the batch
    upserts,            \* the point lists client.upsert received, in call order
    pbar,               \* the progress bar's count
    printed,            \* the N of "Successfully processed N objects.", -1 before
    exit_code,          \* what main returned, -1 while it runs
    error,              \* the exception main caught, "" when none
    skip_existing,      \* args.skip_existing
    log,                \* the phases the batches went through, in order
    service_raised,     \* jinaai.embed raised in the batch's embedding call
    warned,             \* the batch's embedding call printed the dimension warning
    \* the Qdrant store and its uploaders
    store,              \* the collections of the store, by name
    creates,            \* the names client.create_collection received, in call order
    constructed,        \* the collection names of the QdrantUploaders constructed
    \* the annotations file and one call of a CocoParser method
    coco_file,          \* what is at annotations_path
    query,              \* the method called and its argument
    answer              \* what the call returned, or the exception it raised

cropVars == <<use_segmentation, file, image, bbox, segmentation, mask, mode, result, loads, cpc>>

storeVars == <<store, creates, constructed>>

loopVars == <<coco_data, batch_size, pc, i, next_i, batch_annotations, cropped_objects,
              embeddings, upload_objects, upserts, pbar, printed, exit_code, error,
              skip_existing, log, service_raised, warned>>

mainVars == <<loopVars, storeVars>>

parseVars == <<coco_file, query, answer>>

vars == <<cropVars, mainVars, parseVars>>

-----------------------------------------------------------------------------
(* Bounds of the model *)

\* largest image width and height, in pixels
MaxDim == 3

\* largest number of annotations of a run
MaxAnns == 3

\* largest --batch-size of a run
MaxBatch == 2

\* --vector-size of the runs
VectorSize == 2

-----------------------------------------------------------------------------
(* Values *)

Min(a, b) == IF a <= b THEN a ELSE b

Max(a, b) == IF a >= b THEN a ELSE b

\* Python's None / a list, for an optional list argument
NoneList == [isNone |-> TRUE, v |-> <<>>]

ListOf(s) == [isNone |-> FALSE, v |-> s]

\* a key a dict lacks / has with an integer value
Absent == [isNone |-> TRUE, v |-> 0]

Present(n) == [isNone |-> FALSE, v |-> n]

\* d.get(key, default) of such a key
GetOr(opt, default) == IF opt.isNone THEN default ELSE opt.v

\* Python truthiness of an Optional[List]: None and [] are false
Truthy(opt) == ~opt.isNone /\ Len(opt.v) > 0

\* a float given as a whole number of pixels
Px(n) == 2 * n

\* whether a float is a whole number
IsWhole(v) == v % 2 = 0

\* int(v) of a float: truncation toward zero
IntTrunc(v) == IF v >= 0 THEN v \div 2 ELSE -((-v) \div 2)

\* a PIL image of the given size / the None of a failed load
ImageOf(w, h) == [ok |-> TRUE, width |-> w, height |-> h]

NoImage == [ok |-> FALSE, width |-> 0, height |-> 0]

\* a file of the images directory: absent, present but not an image, or an
\* image of the given size
MissingFile == [exists |-> FALSE, decodable |-> FALSE, width |-> 0, height |-> 0]

CorruptFile == [exists |-> TRUE, decodable |-> FALSE, width |-> 0, height |-> 0]

ImageFile(w, h) == [exists |-> TRUE, decodable |-> TRUE, width |-> w, height |-> h]

\* a returned region: its origin in the source image and its size / None
Region(x, y, w, h) == [ok |-> TRUE, x |-> x, y |-> y, w |-> w, h |-> h]

NoRegion == [ok |-> FALSE, x |-> 0, y |-> 0, w |-> 0, h |-> 0]

-----------------------------------------------------------------------------
(* ImageProcessor._crop_by_bbox *)

\* side of the fallback sample
FallbackSize == 10

\* Image.crop((x, y, width, height)): the size passed where the corner belongs
Crop_SizeAsCorner(left, upper, right, lower) == Region(left, upper, right - 2 * left, lower - 2 * upper)

\* Image.crop((left, upper, right, lower))
Crop(left, upper, right, lower) == Region(left, upper, right - left, lower - upper)

\* image.crop((0, 0, 0, 0)): an empty sample
FallbackCrop_Empty(img) == Crop(0, 0, 0, 0)

\* image.crop((0, 0, min(10, image.width), min(10, image.height)))
FallbackCrop(img) == Crop(0, 0, Min(FallbackSize, img.width), Min(FallbackSize, img.height))

\* x = max(0, int(x))
ClampOrigin(v) == Max(0, IntTrunc(v))

\* width = int(width): the clip to the image edge left out
ClampSize_NoClip(size, extent, origin) == IntTrunc(size)

\* width = min(int(width), image.width - x)
ClampSize(size, extent, origin) == Min(IntTrunc(size), extent - origin)

CropByBbox(img, b) ==
    LET x      == ClampOrigin(b[1])
        y      == ClampOrigin(b[2])
        width  == ClampSize(b[3], img.width, x)
        height == ClampSize(b[4], img.height, y)
    IN  IF width < 1 \/ height < 1
        THEN FallbackCrop(img)
        ELSE Crop(x, y, x + width, y + height)

-----------------------------------------------------------------------------
(* QdrantUploader: the store behind QdrantClient *)
(* A collection holds its vector size, its points (at most one per id) and  *)
(* the payload fields that have an index.                                   *)

\* --collection of the runs
CollectionName == "coco_objects"

\* the collection names of the store
Names == {CollectionName, "other"}

\* a name the store has no collection for
NoCollection == [exists |-> FALSE, size |-> 0, points |-> {}, indexes |-> {}]

\* a store without collections
FreshStore == [n \in Names |-> NoCollection]

\* [collection.name for collection in client.get_collections().collections]
CollectionNames(st) == {n \in DOMAIN st : st[n].exists}

\* QdrantUploader.collection_exists
CollectionExists(st, name) == name \in CollectionNames(st)

\* client.create_collection and the two client.create_payload_index calls
NewCollection(size) ==
    [exists |-> TRUE, size |-> size, points |-> {}, indexes |-> {"category_id", "image_id"}]

\* the collection created whether or not the name exists
CreateCollection_Recreate(st, name, size) == [st EXCEPT ![name] = NewCollection(size)]

\* QdrantUploader._create_collection: the store after it
CreateCollection(st, name, size) ==
    IF name \notin CollectionNames(st)
    THEN [st EXCEPT ![name] = NewCollection(size)]
    ELSE st

\* the client.create_collection calls _create_collection makes
CreateCalls(st, name) == IF name \notin CollectionNames(st) THEN <<name>> ELSE <<>>

\* QdrantUploader.__init__ for a collection name
NewUploader(name, size) ==
    /\ store' = CreateCollection(store, name, size)
    /\ creates' = creates \o CreateCalls(store, name)
    /\ constructed' = Append(constructed, name)

\* the points of upload_batch, the first object left out
PointStructs_SkipFirst(objects) ==
    [k \in 1..(Len(objects) - 1) |->
        [id |-> objects[k + 1].id, vector |-> objects[k + 1].vector,
         payload |-> objects[k + 1].payload]]

\* the points upload_batch builds, one PointStruct per object
PointStructs(objects) ==
    [k \in 1..Len(objects) |->
        [id |-> objects[k].id, vector |-> objects[k].vector, payload |-> objects[k].payload]]

\* client.upsert(collection_name, points): a point replaces the stored point
\* of its id, the last of the list winning
Upsert(st, name, points) ==
    LET last(k) == \A m \in (k + 1)..Len(points) : points[m].id # points[k].id
        new     == {points[k] : k \in {n \in 1..Len(points) : last(n)}}
        kept    == {q \in st[name].points : \A k \in 1..Len(points) : points[k].id # q.id}
    IN  [st EXCEPT ![name].points = kept \cup new]

-----------------------------------------------------------------------------
(* CocoParser *)
(* The file at annotations_path is absent, is not JSON, or holds a JSON     *)
(* value: null, a number, the empty array, the empty string, or an object.  *)
(* An object is a record of its keys; a record of a list is a record of the *)
(* fields it has, so a missing field is a field outside its DOMAIN.         *)

CocoFile(kind, value) == [kind |-> kind, value |-> value]

\* the outcome of a call: the exception raised, or the value returned
Raised(exception) == [raised |-> exception, value |-> <<>>]

Returned(value) == [raised |-> "", value |-> value]

\* required_keys of parse
RequiredKeys == {"images", "annotations", "categories"}

\* "key not in coco_data" raises TypeError: null and numbers are no containers
KeyTestRaises(f) == f.kind \in {"null", "number"}

\* "key in coco_data": false for the empty array and the empty string
HasKey(f, key) == f.kind = "object" /\ key \in DOMAIN f.value

\* some record of the list has no such field: record[field] raises KeyError
LacksField(records, field) == \E k \in 1..Len(records) : field \notin DOMAIN records[k]

\* {record['id'] for record in records}
IdsOf(records) == {records[k].id : k \in 1..Len(records)}

\* the validation without the test of the category ids
Rejected_ImagesOnly(ann, image_ids, category_ids) ==
    \/ "image_id" \notin DOMAIN ann
    \/ ann.image_id \notin image_ids

\* the loop over the annotations raises for the annotation: a field it reads
\* is missing (KeyError) or it references no image or category (ValueError)
Rejected(ann, image_ids, category_ids) ==
    \/ "image_id" \notin DOMAIN ann
    \/ ann.image_id \notin image_ids
    \/ "category_id" \notin DOMAIN ann
    \/ ann.category_id \notin category_ids

\* CocoParser.parse
ParseFile(f) ==
    IF f.kind = "absent" THEN Raised("FileNotFoundError")
    ELSE IF f.kind = "invalid" THEN Raised("ValueError")
    ELSE IF KeyTestRaises(f) THEN Raised("TypeError")
    ELSE IF \E key \in RequiredKeys : ~HasKey(f, key) THEN Raised("ValueError")
    ELSE LET data == [images |-> f.value.images,
                        annotations |-> f.value.annotations,
                        categories |-> f.value.categories]
         IN  IF LacksField(data.images, "id") \/ LacksField(data.categories, "id")
             THEN Raised("ValueError")
             ELSE IF \E k \in 1..Len(data.annotations) :
                        Rejected(data.annotations[k], IdsOf(data.images),
                                 IdsOf(data.categories))
             THEN Raised("ValueError")
             ELSE Returned(data)

\* [ann for ann in annotations if ann[key] == id], from the k-th element on
RECURSIVE Filter(_, _, _, _)
Filter(list, key, id, k) ==
    IF k > Len(list) THEN <<>>
    ELSE (IF list[k][key] = id THEN <<list[k]>> ELSE <<>>) \o Filter(list, key, id, k + 1)

\* CocoParser.get_image_annotations
GetImageAnnotations(f, image_id) ==
    LET parsed == ParseFile(f)
    IN  IF parsed.raised # "" THEN parsed
        ELSE Returned(Filter(parsed.value.annotations, "image_id", image_id, 1))

\* CocoParser.get_category_annotations
GetCategoryAnnotations(f, category_id) ==
    LET parsed == ParseFile(f)
    IN  IF parsed.raised # "" THEN parsed
        ELSE Returned(Filter(parsed.value.annotations, "category_id", category_id, 1))

\* the loop of get_category_name: the first category of the id
FirstCategory(categories, category_id) ==
    CHOOSE k \in 1..Len(categories) :
        /\ categories[k].id = category_id
        /\ \A m \in 1..(k - 1) : categories[m].id # category_id

\* the first category's name whatever the id asked for
GetCategoryName_First(f, category_id) ==
    LET parsed == ParseFile(f)
    IN  IF parsed.raised # "" THEN parsed
        ELSE IF Len(parsed.value.categories) = 0 THEN Raised("ValueError")
        ELSE Returned(parsed.value.categories[1].name)

\* CocoParser.get_category_name
GetCategoryName(f, category_id) ==
    LET parsed == ParseFile(f)
    IN  IF parsed.raised # "" THEN parsed
        ELSE IF category_id \in IdsOf(parsed.value.categories)
        THEN Returned(parsed.value.categories[FirstCategory(parsed.value.categories,
                                                            category_id)].name)
        ELSE Raised("ValueError")

\* no call of the parser
NoQuery == [method |-> "", id |-> 0]

ParseIdle ==
    /\ coco_file = CocoFile("absent", <<>>)
    /\ query = NoQuery
    /\ answer = Returned(<<>>)

-----------------------------------------------------------------------------
(* The variables of main() while only the image processor is exercised *)

\* no store and no uploader
StoreIdle ==
    /\ store = FreshStore
    /\ creates = <<>>
    /\ constructed = <<>>

\* main() is not running
LoopIdle ==
    /\ coco_data = [images |-> <<>>, annotations |-> <<>>, categories |-> <<>>]
    /\ batch_size = 1
    /\ pc = "idle"
    /\ i = 0
    /\ next_i = 0
    /\ batch_annotations = <<>>
    /\ cropped_objects = <<>>
    /\ embeddings = <<>>
    /\ upload_objects = <<>>
    /\ upserts = <<>>
    /\ pbar = 0
    /\ printed = -1
    /\ exit_code = -1
    /\ error = ""
    /\ skip_existing = FALSE
    /\ log = <<>>
    /\ service_raised = FALSE
    /\ warned = FALSE

MainIdle == LoopIdle /\ StoreIdle /\ ParseIdle

-----------------------------------------------------------------------------
(* ImageProcessor.load_image *)

\* None when the file is absent or Image.open raises, else the decoded image
LoadImage(f) ==
    IF ~f.exists THEN NoImage
    ELSE IF ~f.decodable THEN NoImage
    ELSE ImageOf(f.width, f.height)

-----------------------------------------------------------------------------
(* ImageProcessor._crop_by_segmentation *)
(* A polygon is a flat list of coordinates; the polygons of the model have  *)
(* whole-pixel vertices.  The mask is the set of its pixels that are set.   *)

\* the loop "for i in range(0, len(polygon), 2): if i + 1 < len(polygon)"
PairStarts(polygon) == {n \in 0..(Len(polygon) - 1) : n % 2 = 0 /\ n + 1 < Len(polygon)}

\* points: the (x, y) tuples of a flat list, a trailing single coordinate dropped
Points(polygon) ==
    [k \in 1..Cardinality(PairStarts(polygon)) |-> <<polygon[2 * k - 1], polygon[2 * k]>>]

\* "if len(points) >= 3"
IsDrawn(points) == Len(points) >= 3

\* twice the signed area of the triangle a, b, p
Cross(a, b, p) == (b[1] - a[1]) * (p[2] - a[2]) - (b[2] - a[2]) * (p[1] - a[1])

\* the closing edge included: the edges of the polygon
Edges(points) == {<<points[k], points[(k % Len(points)) + 1]>> : k \in 1..Len(points)}

\* the pixel p is inside the polygon or on its outline
Covers(points, p) ==
    /\ \E k \in 1..Len(points) : points[k][1] <= p[1]
    /\ \E k \in 1..Len(points) : points[k][1] >= p[1]
    /\ \E k \in 1..Len(points) : points[k][2] <= p[2]
    /\ \E k \in 1..Len(points) : points[k][2] >= p[2]
    /\ \/ \A e \in Edges(points) : Cross(e[1], e[2], p) >= 0
       \/ \A e \in Edges(points) : Cross(e[1], e[2], p) <= 0

\* draw.polygon(points, fill=255) on a mask of the image's size: ImageDraw
\* fills every scanline from the lowest to the highest vertex, each from its
\* left to its right edge, both ends included, and clips to the mask.  For the
\* convex polygons of the model (edges axis-aligned or diagonal, so that every
\* edge meets every scanline at a whole pixel) these are the pixels inside the
\* polygon or on its outline.
DrawPolygon(points, img) ==
    {p \in (0..(img.width - 1)) \X (0..(img.height - 1)) : Covers(points, p)}

\* the mask after the loop over the polygons
MaskOf(img, seg) ==
    UNION {IF IsDrawn(Points(seg[k])) THEN DrawPolygon(Points(seg[k]), img) ELSE {}
             : k \in 1..Len(seg)}

\* the tuple (left, upper, right, lower) of a non-empty mask.getbbox(): the
\* right and lower bounds are one past the last set pixel
GetBbox(m) ==
    LET xs == {p[1] : p \in m}
        ys == {p[2] : p \in m}
        lo(S) == CHOOSE a \in S : \A b \in S : a <= b
        hi(S) == CHOOSE a \in S : \A b \in S : a >= b
    IN  <<lo(xs), lo(ys), hi(xs) + 1, hi(ys) + 1>>

CropBySegmentation(img, seg) ==
    LET m == MaskOf(img, seg)
    IN  IF m = {}
        THEN FallbackCrop(img)
        ELSE Crop(GetBbox(m)[1], GetBbox(m)[2], GetBbox(m)[3], GetBbox(m)[4])

-----------------------------------------------------------------------------
(* ImageProcessor.crop_object *)

\* the segmentation branch taken whenever a polygon is present, the flag ignored
CropMode_IgnoreFlag(flag, img, b, seg) ==
    IF ~img.ok THEN "load_failed"
    ELSE IF Truthy(seg) /\ Len(seg.v) > 0 THEN "segmentation"
    ELSE IF Truthy(b) /\ Len(b.v) = 4 THEN "bbox"
    ELSE "none"

\* the "if image is None: return None" left out
CropMode_NoLoadCheck(flag, img, b, seg) ==
    IF flag /\ Truthy(seg) /\ Len(seg.v) > 0 THEN "segmentation"
    ELSE IF Truthy(b) /\ Len(b.v) = 4 THEN "bbox"
    ELSE "none"

\* the branch of crop_object
CropMode(flag, img, b, seg) ==
    IF ~img.ok THEN "load_failed"
    ELSE IF flag /\ Truthy(seg) /\ Len(seg.v) > 0 THEN "segmentation"
    ELSE IF Truthy(b) /\ Len(b.v) = 4 THEN "bbox"
    ELSE "none"

CropObject(flag, f, b, seg) ==
    LET img == LoadImage(f)
        m   == CropMode(flag, img, b, seg)
    IN  IF m = "segmentation" THEN CropBySegmentation(img, seg.v)
        ELSE IF m = "bbox" THEN CropByBbox(img, b.v)
        ELSE NoRegion

-----------------------------------------------------------------------------
(* Specification of crop_object *)

\* polygons with fewer than three points
DegeneratePolygons ==
    {<<>>, <<1>>, <<0, 0>>, <<0, 0, 1>>, <<0, 0, 1, 1>>, <<0, 0, 1, 1, 0>>}

\* the axis-aligned rectangle (x0, y0)-(x1, y1), as in
\* [x0, y0, x1, y0, x1, y1, x0, y1]
Rectangle(x0, y0, x1, y1) == <<x0, y0, x1, y0, x1, y1, x0, y1>>

Rectangles ==
    {Rectangle(c[1], c[2], c[3], c[4]) :
        c \in {d \in (0..MaxDim) \X (0..MaxDim) \X (0..MaxDim) \X (0..MaxDim) :
                 d[1] < d[3] /\ d[2] < d[4]}}

\* right triangles with two axis-aligned sides
Triangles == {<<0, 0, 1, 0, 0, 1>>, <<0, 0, 2, 0, 0, 2>>, <<1, 1, 2, 2, 1, 2>>}

Polygons == DegeneratePolygons \cup Rectangles \cup Triangles

\* the second polygon of a two-polygon segmentation
SecondPolygons == DegeneratePolygons \cup {Rectangle(0, 0, 1, 1), <<1, 1, 2, 2, 1, 2>>}

Segmentations ==
    {NoneList, ListOf(<<>>)}
    \cup {ListOf(<<p>>) : p \in Polygons}
    \cup {ListOf(<<p, q>>) : p \in Polygons, q \in SecondPolygons}

\* bbox arguments: None, lists that are not four long, boxes inside the image,
\* across its edge, outside it, and of no or negative size
Bboxes ==
    {NoneList, ListOf(<<>>), ListOf(<<0, 0, Px(1)>>), ListOf(<<0, 0, Px(1), Px(1), 0>>),
     ListOf(<<0, 0, Px(1), Px(1)>>), ListOf(<<1, 1, 3, 2>>),
     ListOf(<<Px(1), 0, Px(MaxDim), Px(MaxDim)>>), ListOf(<<Px(MaxDim), Px(MaxDim), Px(1), Px(1)>>),
     ListOf(<<0, 0, 0, 0>>), ListOf(<<0, 0, -Px(1), Px(1)>>)}

Files == {MissingFile, CorruptFile} \cup {ImageFile(w, h) : w \in 1..MaxDim, h \in 1..MaxDim}

InitCrop ==
    /\ use_segmentation \in BOOLEAN
    /\ file \in Files
    /\ image = NoImage
    /\ bbox \in Bboxes
    /\ segmentation \in Segmentations
    /\ mask = {}
    /\ mode = "none"
    /\ result = NoRegion
    /\ loads = 0
    /\ cpc = "call"
    /\ MainIdle

CallCropObject ==
    /\ cpc = "call"
    /\ image' = LoadImage(file)
    /\ mode' = CropMode(use_segmentation, image', bbox, segmentation)
    /\ mask' = IF mode' = "segmentation" THEN MaskOf(image', segmentation.v) ELSE {}
    /\ result' = CropObject(use_segmentation, file, bbox, segmentation)
    /\ loads' = loads + 1
    /\ cpc' = "returned"
    /\ UNCHANGED <<use_segmentation, file, bbox, segmentation>>
    /\ UNCHANGED <<mainVars, parseVars>>

NextCrop == CallCropObject

SpecCrop == InitCrop /\ [][NextCrop]_vars

-----------------------------------------------------------------------------
(* Specification of _crop_by_bbox called on a loaded image *)

\* the floats a bounding box is drawn from: -1.0 .. MaxDim + 1, in halves
BboxCoords == (-2)..(Px(MaxDim) + 2)

InitBbox ==
    /\ use_segmentation = FALSE
    /\ \E w \in 1..MaxDim, h \in 1..MaxDim :
          /\ file = ImageFile(w, h)
          /\ image = ImageOf(w, h)
    /\ \E x \in BboxCoords, y \in BboxCoords, w \in BboxCoords, h \in BboxCoords :
          bbox = ListOf(<<x, y, w, h>>)
    /\ segmentation = NoneList
    /\ mask = {}
    /\ mode = "none"
    /\ result = NoRegion
    /\ loads = 0
    /\ cpc = "call"
    /\ MainIdle

CallCropByBbox ==
    /\ cpc = "call"
    /\ result' = CropByBbox(image, bbox.v)
    /\ mode' = "bbox"
    /\ cpc' = "returned"
    /\ UNCHANGED <<use_segmentation, file, image, bbox, segmentation, mask, loads>>
    /\ UNCHANGED <<mainVars, parseVars>>

NextBbox == CallCropByBbox

SpecBbox == InitBbox /\ [][NextBbox]_vars

-----------------------------------------------------------------------------
(* Claims about _crop_by_bbox, checked under SpecBbox *)

\* the box of the call, as floats in half pixels
bx == bbox.v[1]

by == bbox.v[2]

bw == bbox.v[3]

bh == bbox.v[4]

BboxReturned == cpc = "returned" /\ mode = "bbox" /\ image.ok

\* the box lies fully inside the image
FullyInside ==
    /\ bx >= 0 /\ by >= 0 /\ bw >= Px(1) /\ bh >= Px(1)
    /\ bx + bw <= Px(image.width) /\ by + bh <= Px(image.height)

\* the box crosses at least one edge of the image
ExtendsBeyond ==
    \/ bx < 0 \/ by < 0
    \/ bx + bw > Px(image.width) \/ by + bh > Px(image.height)

\* the clamped size of section 4.1: x, y truncated and clamped to >= 0, then
\* w, h cut so that x + w <= image.width and y + h <= image.height
ClampedW == Min(bw, Px(image.width) - Px(Max(0, IntTrunc(bx))))

ClampedH == Min(bh, Px(image.height) - Px(Max(0, IntTrunc(by))))

\* the clamped width or height is less than one pixel
DegenerateBox == ClampedW < Px(1) \/ ClampedH < Px(1)

\* C5 (as claimed): a bounding box whose clamped width or height is less than
\* 1 makes the extraction fail: no region is returned for it.
C5_DegenerateBoxFails == BboxReturned /\ DegenerateBox => ~result.ok

\* C6 (as claimed): for every box fully inside the image the returned region
\* is exactly w by h pixels with origin (x, y).
C6_InsideBoxExact ==
    BboxReturned /\ FullyInside =>
        /\ result.ok
        /\ Px(result.w) = bw /\ Px(result.h) = bh
        /\ Px(result.x) = bx /\ Px(result.y) = by

\* C6 (amended): for every box fully inside the image the returned region is
\* int(w) by int(h) pixels with origin (int(x), int(y)), each float truncated
\* toward zero; it is exactly w by h at (x, y) when the four are whole numbers.
C6_InsideBoxTruncated ==
    BboxReturned /\ FullyInside =>
        /\ result = Region(IntTrunc(bx), IntTrunc(by), IntTrunc(bw), IntTrunc(bh))
        /\ (IsWhole(bx) /\ IsWhole(by) /\ IsWhole(bw) /\ IsWhole(bh) =>
               /\ Px(result.w) = bw /\ Px(result.h) = bh
               /\ Px(result.x) = bx /\ Px(result.y) = by)

\* a fully inside box with a fractional corner and a fractional size, cropped
C6_Witness ==
    /\ BboxReturned /\ FullyInside
    /\ ~IsWhole(bx) /\ ~IsWhole(bw) /\ bx > 0 /\ by > 0
    /\ result.ok /\ result.w >= 2

\* C7 (as claimed): for every box that extends beyond the image and is not
\* degenerate after clamping, the region is min(w, image.width - x) by
\* min(h, image.height - y) with x, y clamped to >= 0, at the clamped (x, y).
C7_ClippedExact ==
    BboxReturned /\ ExtendsBeyond
      /\ Min(bw, Px(image.width) - Max(0, bx)) >= Px(1)
      /\ Min(bh, Px(image.height) - Max(0, by)) >= Px(1) =>
        /\ result.ok
        /\ Px(result.w) = Min(bw, Px(image.width) - Max(0, bx))
        /\ Px(result.h) = Min(bh, Px(image.height) - Max(0, by))
        /\ Px(result.x) = Max(0, bx) /\ Px(result.y) = Max(0, by)

\* the origin and the size the amended C7 gives, in whole pixels
C7x == Max(0, IntTrunc(bx))

C7y == Max(0, IntTrunc(by))

C7w == Min(IntTrunc(bw), image.width - C7x)

C7h == Min(IntTrunc(bh), image.height - C7y)

\* C7 (amended): with x, y, w, h first truncated toward zero, and x, y then
\* clamped to >= 0, a box that extends beyond the image and whose clipped size
\* min(w, image.width - x) by min(h, image.height - y) is at least 1 by 1 gives
\* a region of exactly that size at the clamped (x, y).
C7_ClippedTruncated ==
    BboxReturned /\ ExtendsBeyond /\ C7w >= 1 /\ C7h >= 1 =>
        result = Region(C7x, C7y, C7w, C7h)

\* a box that sticks out to the right and below is cut at the image's edges
C7_Witness ==
    /\ BboxReturned
    /\ bx > 0 /\ by > 0
    /\ bx + bw > Px(image.width) /\ by + bh > Px(image.height)
    /\ result.ok
    /\ result.x + result.w = image.width /\ result.y + result.h = image.height

\* C26: _crop_by_bbox returns a region for every box of four numbers on a
\* loaded image, never None: the region is at least 1 by 1 and lies within
\* the image, also for a box of negative or zero width or height, for which
\* a small section of the image is returned.
C26_AlwaysRegion ==
    BboxReturned =>
        /\ result.ok
        /\ result.w >= 1 /\ result.h >= 1
        /\ result.x >= 0 /\ result.y >= 0
        /\ result.x + result.w <= image.width
        /\ result.y + result.h <= image.height

\* a box of negative width inside a 3 by 2 image gives the top-left section
C26_Witness ==
    /\ BboxReturned
    /\ image.width = 3 /\ image.height = 2
    /\ bx = Px(1) /\ by = 0 /\ bw < 0 /\ bh = Px(1)
    /\ result = Region(0, 0, 3, 2)

\* the crop is the fallback section, the box being cut to less than 1 by 1
FallbackTaken ==
    \/ ClampSize(bw, image.width, ClampOrigin(bx)) < 1
    \/ ClampSize(bh, image.height, ClampOrigin(by)) < 1

-----------------------------------------------------------------------------
(* Claims about crop_object and _crop_by_segmentation, checked under SpecCrop *)

CropReturned == cpc = "returned" /\ image.ok

\* the annotation carries at least one polygon
HasPolygon == ~segmentation.isNone /\ Len(segmentation.v) >= 1

\* the annotation carries a 4-element bbox
HasBbox4 == ~bbox.isNone /\ Len(bbox.v) = 4

\* every polygon of the segmentation has fewer than 3 points
AllDegenerate ==
    \A k \in 1..Len(segmentation.v) : Len(Points(segmentation.v[k])) < 3

\* C8 (as claimed): a polygon with fewer than 3 points adds no pixel to the
\* mask, and when every polygon of the segmentation is degenerate the
\* extraction fails instead of returning a region.
C8_DegeneratePolygonsFail ==
    CropReturned /\ mode = "segmentation" /\ AllDegenerate =>
        mask = {} /\ ~result.ok

\* the single polygon of the segmentation
poly == segmentation.v[1]

\* the segmentation is one axis-aligned rectangle (x0, y0)-(x1, y1), x0 < x1,
\* y0 < y1, that lies inside the image
SingleRectangleInside ==
    /\ HasPolygon /\ Len(segmentation.v) = 1
    /\ poly \in Rectangles
    /\ poly[3] <= image.width /\ poly[6] <= image.height

\* C9 (as claimed): for a segmentation made of a single axis-aligned
\* rectangular polygon inside the image the region's bounding box is the
\* polygon's: origin (xmin, ymin), size (xmax - xmin) by (ymax - ymin).
C9_RectangleRoundTrip ==
    CropReturned /\ mode = "segmentation" /\ SingleRectangleInside =>
        result = Region(poly[1], poly[2], poly[3] - poly[1], poly[6] - poly[2])

\* C10: on a loaded image crop_object takes the segmentation path exactly when
\* use_segmentation is set and the annotation carries at least one polygon;
\* otherwise the bounding-box path exactly when a 4-element bbox is present;
\* otherwise it returns no region.  With the flag unset a present segmentation
\* is never used: no mask is drawn and the region is the bounding box's.
C10_ModeSelection ==
    CropReturned =>
        /\ mode = "segmentation" <=> (use_segmentation /\ HasPolygon)
        /\ mode = "bbox" <=> (~(use_segmentation /\ HasPolygon) /\ HasBbox4)
        /\ mode = "none" <=> (~(use_segmentation /\ HasPolygon) /\ ~HasBbox4)
        /\ mode = "none" => ~result.ok
        /\ mode = "bbox" => result.ok
        /\ ~use_segmentation =>
              /\ mask = {}
              /\ HasBbox4 =>
                    LET x == Max(0, IntTrunc(bx))
                        y == Max(0, IntTrunc(by))
                        w == Min(IntTrunc(bw), image.width - x)
                        h == Min(IntTrunc(bh), image.height - y)
                    IN  w >= 1 /\ h >= 1 => result = Region(x, y, w, h)

\* the flag unset, a drawable polygon and a 4-element bbox present: the
\* bounding-box path was taken
C10_Witness ==
    /\ CropReturned /\ ~use_segmentation
    /\ HasPolygon /\ ~AllDegenerate /\ HasBbox4
    /\ mode = "bbox" /\ result.ok /\ mask = {}
\* the file of the call cannot be loaded: it is absent or not an image
Unloadable == ~file.exists \/ ~file.decodable

\* C11: when the source image cannot be loaded (file missing or undecodable)
\* load_image returns None, crop_object returns no region whatever the bbox
\* and the segmentation are, and load_image was called exactly once.
C11_UnloadableGivesNone ==
    cpc = "returned" /\ Unloadable =>
        /\ ~image.ok
        /\ mode = "load_failed"
        /\ ~result.ok
        /\ mask = {}
        /\ loads = 1

\* an undecodable file with a good box and a drawable polygon, the
\* segmentation preferred: no region
C11_Witness ==
    /\ cpc = "returned"
    /\ file.exists /\ ~file.decodable
    /\ use_segmentation /\ HasPolygon /\ ~AllDegenerate /\ HasBbox4
    /\ ~result.ok /\ loads = 1


-----------------------------------------------------------------------------
(* EmbeddingGenerator.generate_embeddings *)
(* A vector is a tuple of floats, written as whole numbers.                 *)

\* [0.0] * self.vector_size
ZeroVector == [n \in 1..VectorSize |-> 0]

\* the vectors the embedding service answers with: of the configured size or
\* one element short
Vectors == {[n \in 1..VectorSize |-> 1], [n \in 1..(VectorSize - 1) |-> 1]}

\* the lists of the given length over a set
Lists(S, len) == [1..len -> S]

\* jinaai.embed(...).embeddings for n inputs: the service is opaque, its
\* answer may be one vector short or one long
ServiceResults(n) == Lists(Vectors, n - 1) \cup Lists(Vectors, n) \cup Lists(Vectors, n + 1)

\* a single zero vector whatever the number of images
ZeroVectors_One(n) == <<ZeroVector>>

\* the except branch: one zero vector per image
ZeroVectors(n) == [k \in 1..n |-> ZeroVector]

\* every list generate_embeddings can return for the images: [] for no image,
\* the service's answer as it is, or the zero vectors when the call raised
GenerateEmbeddings(images) ==
    IF Len(images) = 0 THEN {<<>>}
    ELSE ServiceResults(Len(images)) \cup {ZeroVectors(Len(images))}

\* the lists generate_embeddings returns when jinaai.embed raised, and when
\* it answered (it is not called for no image)
ReturnsWhen(raised, images) ==
    IF Len(images) = 0 THEN (IF raised THEN {} ELSE {<<>>})
    ELSE IF raised THEN {ZeroVectors(Len(images))}
    ELSE ServiceResults(Len(images))

\* "if len(results) > 0 and len(results[0]) != self.vector_size": the
\* warning is printed
DimensionWarning(results) == Len(results) > 0 /\ Len(results[1]) # VectorSize

-----------------------------------------------------------------------------
(* main(): the batch loop *)

\* the images directory of the runs: a.jpg is a 2x2 image, b.jpg is absent
ImagesDir(name) == IF name = "a.jpg" THEN ImageFile(2, 2) ELSE MissingFile

Images == <<[id |-> 1, file_name |-> "a.jpg"], [id |-> 2, file_name |-> "b.jpg"]>>

Categories == <<[id |-> 1, name |-> "cat"], [id |-> 2, name |-> "dog"]>>

\* the annotations of the runs, their ids left open: a box inside its image,
\* a box on an image whose file is absent, a polygon and no box, a box of
\* size zero
Templates ==
    {[image_id |-> 1, category_id |-> 1, bbox |-> ListOf(<<0, 0, Px(1), Px(1)>>),
      segmentation |-> NoneList, area |-> 1, iscrowd |-> Present(1)],
     [image_id |-> 2, category_id |-> 2, bbox |-> ListOf(<<0, 0, Px(1), Px(1)>>),
      segmentation |-> NoneList, area |-> 1, iscrowd |-> Absent],
     [image_id |-> 1, category_id |-> 2, bbox |-> NoneList,
      segmentation |-> ListOf(<<Rectangle(0, 0, 1, 1)>>), area |-> 4, iscrowd |-> Present(0)],
     [image_id |-> 1, category_id |-> 1, bbox |-> ListOf(<<0, 0, 0, 0>>),
      segmentation |-> NoneList, area |-> 0, iscrowd |-> Absent]}

\* the id of the k-th annotation of the file: unique, not its position
AnnId(k) == 10 + k

Annotation(t, k) ==
    [id |-> AnnId(k), image_id |-> t.image_id, category_id |-> t.category_id,
     bbox |-> t.bbox, segmentation |-> t.segmentation, area |-> t.area,
     iscrowd |-> t.iscrowd]

\* the annotation lists of the runs
AnnotationLists ==
    UNION {{[k \in 1..n |-> Annotation(ts[k], k)] : ts \in [1..n -> Templates]} : n \in 0..MaxAnns}

\* the slice taken from the start of the list whatever the offset: s[:to - from]
Slice_FromStart(s, from, to) == SubSeq(s, 1, Min(to - from, Len(s)))

\* s[from:to] of a list, from >= 0
Slice(s, from, to) == SubSeq(s, from + 1, Min(to, Len(s)))

\* image_data[ann['image_id']]: the images of the batch, by id
ImageData(images, batch) ==
    {img \in {images[k] : k \in 1..Len(images)} :
        \E a \in 1..Len(batch) : batch[a].image_id = img.id}

HasImage(images, batch, ann) == \E img \in ImageData(images, batch) : img.id = ann.image_id

ImageInfo(images, batch, ann) ==
    CHOOSE img \in ImageData(images, batch) : img.id = ann.image_id

\* next(cat for cat in categories if cat['id'] == ann['category_id'])
HasCategory(categories, ann) ==
    \E k \in 1..Len(categories) : categories[k].id = ann.category_id

Category(categories, ann) ==
    categories[CHOOSE k \in 1..Len(categories) :
                  /\ categories[k].id = ann.category_id
                  /\ \A m \in 1..(k - 1) : categories[m].id # ann.category_id]

\* the lookups of the loop over the batch raise for no annotation
JoinOk(data, batch) ==
    \A k \in 1..Len(batch) :
        HasImage(data.images, batch, batch[k]) /\ HasCategory(data.categories, batch[k])

\* image_processor.crop_object(...) for an annotation of the batch
CroppedImage(flag, data, batch, ann) ==
    CropObject(flag, ImagesDir(ImageInfo(data.images, batch, ann).file_name),
               ann.bbox, ann.segmentation)

\* the survivors put at the front of the list: cropped_objects.insert(0, ...)
RECURSIVE CropBatch_Reversed(_, _, _, _)
CropBatch_Reversed(flag, data, batch, k) ==
    IF k > Len(batch) THEN <<>>
    ELSE LET ann     == batch[k]
             cropped == CroppedImage(flag, data, batch, ann)
         IN  CropBatch_Reversed(flag, data, batch, k + 1)
             \o (IF cropped.ok
                 THEN <<[image |-> cropped, annotation |-> ann,
                         image_info |-> ImageInfo(data.images, batch, ann),
                         category |-> Category(data.categories, ann)]>>
                 ELSE <<>>)

\* the loop "for ann in batch_annotations", from the k-th annotation on:
\* cropped_objects after it
RECURSIVE CropBatch(_, _, _, _)
CropBatch(flag, data, batch, k) ==
    IF k > Len(batch) THEN <<>>
    ELSE LET ann     == batch[k]
             cropped == CroppedImage(flag, data, batch, ann)
         IN  (IF cropped.ok
              THEN <<[image |-> cropped, annotation |-> ann,
                      image_info |-> ImageInfo(data.images, batch, ann),
                      category |-> Category(data.categories, ann)]>>
              ELSE <<>>)
             \o CropBatch(flag, data, batch, k + 1)

\* the record with the image's id under 'category_id'
UploadObject_ImageAsCategory(obj, vector) ==
    [id |-> obj.annotation.id,
     vector |-> vector,
     payload |-> [image_id |-> obj.image_info.id,
                  file_name |-> obj.image_info.file_name,
                  category_id |-> obj.image_info.id,
                  category_name |-> obj.category.name,
                  bbox |-> obj.annotation.bbox,
                  segmentation |-> obj.annotation.segmentation,
                  area |-> obj.annotation.area,
                  iscrowd |-> GetOr(obj.annotation.iscrowd, 0)]]

\* the record of one cropped object and its vector
UploadObject(obj, vector) ==
    [id |-> obj.annotation.id,
     vector |-> vector,
     payload |-> [image_id |-> obj.image_info.id,
                  file_name |-> obj.image_info.file_name,
                  category_id |-> obj.category.id,
                  category_name |-> obj.category.name,
                  bbox |-> obj.annotation.bbox,
                  segmentation |-> obj.annotation.segmentation,
                  area |-> obj.annotation.area,
                  iscrowd |-> GetOr(obj.annotation.iscrowd, 0)]]

\* the vectors taken from the end of the list: 'vector': embeddings[-1 - i]
BuildUploadObjects_FromEnd(cropped, embs) ==
    [k \in 1..Len(cropped) |-> UploadObject(cropped[k], embs[Len(embs) + 1 - k])]

\* the loop "for i, obj in enumerate(cropped_objects)": 'vector': embeddings[i]
BuildUploadObjects(cropped, embs) ==
    [k \in 1..Len(cropped) |-> UploadObject(cropped[k], embs[k])]

\* annotations that reference no image, or no category, of the file
DanglingTemplates ==
    {[image_id |-> 3, category_id |-> 1, bbox |-> ListOf(<<0, 0, Px(1), Px(1)>>),
      segmentation |-> NoneList, area |-> 1, iscrowd |-> Absent],
     [image_id |-> 1, category_id |-> 3, bbox |-> ListOf(<<0, 0, Px(1), Px(1)>>),
      segmentation |-> NoneList, area |-> 1, iscrowd |-> Absent]}

\* the annotation lists that end with such an annotation
DanglingLists ==
    UNION {{Append([k \in 1..n |-> Annotation(ts[k], k)], Annotation(t, n + 1)) :
               ts \in [1..n -> Templates], t \in DanglingTemplates} :
           n \in 0..(MaxAnns - 1)}

\* the annotation files of the runs: objects with the three keys and one more
MainFiles ==
    {CocoFile("object", [info |-> "2024", images |-> Images, annotations |-> anns,
                         categories |-> Categories]) :
        anns \in AnnotationLists \cup DanglingLists}

\* a point stored by an earlier run, under the id of the first annotation
OldPoint ==
    [id |-> AnnId(1),
     vector |-> ZeroVector,
     payload |-> [image_id |-> 9, file_name |-> "old.jpg", category_id |-> 1,
                  category_name |-> "cat", bbox |-> NoneList, segmentation |-> NoneList,
                  area |-> 0, iscrowd |-> 0]]

\* the store at output_path when an earlier run left the collection there
OldStore ==
    [FreshStore EXCEPT ![CollectionName] =
        [exists |-> TRUE, size |-> VectorSize, points |-> {OldPoint}, indexes |-> {}]]

\* the runs: any annotation list, either crop mode, a batch size from -1 on;
\* without --skip-existing on a store without the collection, with it on a
\* store with or without the collection
InitMain ==
    /\ use_segmentation \in BOOLEAN
    /\ file = MissingFile
    /\ image = NoImage
    /\ bbox = NoneList
    /\ segmentation = NoneList
    /\ mask = {}
    /\ mode = "none"
    /\ result = NoRegion
    /\ loads = 0
    /\ cpc = "idle"
    /\ coco_file \in MainFiles
    /\ query = NoQuery
    /\ answer = Returned(<<>>)
    /\ coco_data = [images |-> <<>>, annotations |-> <<>>, categories |-> <<>>]
    /\ batch_size \in (-1)..MaxBatch
    /\ pc = "parse"
    /\ i = 0
    /\ next_i = 0
    /\ batch_annotations = <<>>
    /\ cropped_objects = <<>>
    /\ embeddings = <<>>
    /\ upload_objects = <<>>
    /\ upserts = <<>>
    /\ pbar = 0
    /\ printed = -1
    /\ exit_code = -1
    /\ error = ""
    /\ skip_existing \in BOOLEAN
    /\ log = <<>>
    /\ service_raised = FALSE
    /\ warned = FALSE
    /\ store \in (IF skip_existing THEN {FreshStore, OldStore} ELSE {FreshStore})
    /\ creates = <<>>
    /\ constructed = <<>>

total_objects == Len(coco_data.annotations)

\* an exception that is swallowed: the run goes on with the next batch
Raise_Swallow ==
    /\ pc' = "update"
    /\ exit_code' = exit_code

\* "except Exception": print the error, return 1
Raise ==
    /\ pc' = "done"
    /\ exit_code' = 1

\* the number of batches begun
BatchNo == Cardinality({k \in 1..Len(log) : log[k].phase = "Joining"})

\* the ids of a list of annotations, survivors or records
AnnotationIds(batch) == [k \in 1..Len(batch) |-> batch[k].id]

SurvivorIds(cropped) == [k \in 1..Len(cropped) |-> cropped[k].annotation.id]

\* the log with the phase a batch enters
Logged(batch, phase, ids) == Append(log, [batch |-> batch, phase |-> phase, ids |-> ids])

\* coco_data = parser.parse(): an exception ends the run with 1
Parse ==
    /\ pc = "parse"
    /\ LET parsed == ParseFile(coco_file)
       IN  IF parsed.raised = ""
           THEN coco_data' = parsed.value /\ pc' = "start" /\ UNCHANGED <<exit_code, error>>
           ELSE Raise /\ error' = parsed.raised /\ UNCHANGED coco_data
    /\ UNCHANGED <<parseVars, cropVars, batch_size, i, next_i, batch_annotations,
                   cropped_objects, embeddings, upload_objects, upserts, pbar, printed,
                   skip_existing, log, service_raised, warned, storeVars>>

\* QdrantUploader(...) is constructed, then "if args.skip_existing and
\* qdrant_uploader.collection_exists()": return 0
Setup ==
    /\ pc = "start"
    /\ NewUploader(CollectionName, VectorSize)
    /\ IF skip_existing /\ CollectionExists(store', CollectionName)
       THEN pc' = "done" /\ exit_code' = 0
       ELSE pc' = "range" /\ UNCHANGED exit_code
    /\ UNCHANGED <<parseVars, cropVars, coco_data, batch_size, i, next_i, batch_annotations,
                   cropped_objects, embeddings, upload_objects, upserts, pbar, printed,
                   error, skip_existing, log, service_raised, warned>>

\* range(0, total_objects, batch_size): a step of zero raises ValueError
StartLoop ==
    /\ pc = "range"
    /\ IF batch_size = 0
       THEN Raise /\ error' = "ValueError"
       ELSE pc' = "loop" /\ UNCHANGED <<exit_code, error>>
    /\ UNCHANGED <<parseVars, cropVars, coco_data, batch_size, i, next_i, batch_annotations,
                   cropped_objects, embeddings, upload_objects, upserts, pbar, printed,
                   skip_existing, log, service_raised, warned, storeVars>>

\* the range has a next value
MoreBatches == batch_size > 0 /\ next_i < total_objects

\* the next i of the for loop and the slice of its batch
Join ==
    /\ pc = "loop"
    /\ MoreBatches
    /\ i' = next_i
    /\ next_i' = next_i + batch_size
    /\ batch_annotations' = Slice(coco_data.annotations, next_i, next_i + batch_size)
    /\ log' = Logged(BatchNo + 1, "Joining", AnnotationIds(batch_annotations'))
    /\ pc' = "extract"
    /\ UNCHANGED <<parseVars, cropVars, coco_data, batch_size, cropped_objects, embeddings,
                   upload_objects, upserts, pbar, printed, exit_code, error,
                   skip_existing, service_raised, warned, storeVars>>

\* every extraction done, and no survivor: the embedding is run all the same
AfterExtract_NoGuard(cropped) == "embed"

\* "if cropped_objects:" after the loop over the batch
AfterExtract(cropped) == IF Len(cropped) > 0 THEN "embed" ELSE "update"

\* the loop over the annotations of the batch: join and crop each; a lookup
\* that finds nothing raises KeyError or StopIteration
Extract ==
    /\ pc = "extract"
    /\ IF JoinOk(coco_data, batch_annotations)
       THEN /\ cropped_objects' = CropBatch(use_segmentation, coco_data, batch_annotations, 1)
            /\ log' = Logged(BatchNo, "Extracting", SurvivorIds(cropped_objects'))
            /\ pc' = AfterExtract(cropped_objects')
            /\ UNCHANGED <<exit_code, error>>
       ELSE Raise /\ error' = "LookupError" /\ UNCHANGED <<cropped_objects, log>>
    /\ UNCHANGED <<parseVars, cropVars, coco_data, batch_size, i, next_i, batch_annotations,
                   embeddings, upload_objects, upserts, pbar, printed,
                   skip_existing, service_raised, warned, storeVars>>

\* embeddings = embedding_generator.generate_embeddings(images)
Embed ==
    /\ pc = "embed"
    /\ LET images == [k \in 1..Len(cropped_objects) |-> cropped_objects[k].image]
       IN  /\ embeddings' \in GenerateEmbeddings(images)
           /\ service_raised' \in {r \in BOOLEAN : embeddings' \in ReturnsWhen(r, images)}
           /\ warned' = (~service_raised' /\ DimensionWarning(embeddings'))
    /\ log' = Logged(BatchNo, "Embedding", SurvivorIds(cropped_objects))
    /\ pc' = "zip"
    /\ UNCHANGED <<parseVars, cropVars, coco_data, batch_size, i, next_i, batch_annotations,
                   cropped_objects, upload_objects, upserts, pbar, printed, exit_code,
                   error, skip_existing, storeVars>>

\* the enumerate loop: embeddings[i] raises IndexError past the end of a
\* short list, and i keeps the index it last had
Zip ==
    /\ pc = "zip"
    /\ IF Len(embeddings) < Len(cropped_objects)
       THEN /\ Raise
            /\ error' = "IndexError"
            /\ i' = Len(embeddings)
            /\ upload_objects' =
                  BuildUploadObjects(SubSeq(cropped_objects, 1, Len(embeddings)), embeddings)
       ELSE /\ upload_objects' = BuildUploadObjects(cropped_objects, embeddings)
            /\ i' = IF Len(cropped_objects) = 0 THEN i ELSE Len(cropped_objects) - 1
            /\ pc' = "upload"
            /\ UNCHANGED <<exit_code, error>>
    /\ UNCHANGED <<parseVars, cropVars, coco_data, batch_size, next_i, batch_annotations,
                   cropped_objects, embeddings, upserts, pbar, printed,
                   skip_existing, log, service_raised, warned, storeVars>>

\* qdrant_uploader.upload_batch(upload_objects): nothing for no object, else
\* one client.upsert of all the points, which the store takes or answers
\* with an exception
Upload ==
    /\ pc = "upload"
    /\ log' = Logged(BatchNo, "Uploading", AnnotationIds(upload_objects))
    /\ IF Len(upload_objects) = 0
       THEN pc' = "update" /\ UNCHANGED <<upserts, store, exit_code, error>>
       ELSE \/ /\ upserts' = Append(upserts, PointStructs(upload_objects))
               /\ store' = Upsert(store, CollectionName, PointStructs(upload_objects))
               /\ pc' = "update"
               /\ UNCHANGED <<exit_code, error>>
            \/ /\ Raise
               /\ error' = "UpsertError"
               /\ UNCHANGED <<upserts, store>>
    /\ UNCHANGED <<parseVars, cropVars, coco_data, batch_size, i, next_i, batch_annotations,
                   cropped_objects, embeddings, upload_objects, pbar, printed,
                   skip_existing, service_raised, warned, creates, constructed>>

\* pbar.update(len(batch_annotations))
Update ==
    /\ pc = "update"
    /\ pbar' = pbar + Len(batch_annotations)
    /\ pc' = "loop"
    /\ UNCHANGED <<parseVars, cropVars, coco_data, batch_size, i, next_i, batch_annotations,
                   cropped_objects, embeddings, upload_objects, upserts, printed, exit_code,
                   error, skip_existing, log, service_raised, warned, storeVars>>

\* the range is exhausted: "Successfully processed {total_objects} objects.",
\* return 0
Finish ==
    /\ pc = "loop"
    /\ ~MoreBatches
    /\ printed' = total_objects
    /\ exit_code' = 0
    /\ pc' = "done"
    /\ UNCHANGED <<parseVars, cropVars, coco_data, batch_size, i, next_i, batch_annotations,
                   cropped_objects, embeddings, upload_objects, upserts, pbar,
                   error, skip_existing, log, service_raised, warned, storeVars>>

Next == Parse \/ Setup \/ StartLoop \/ Join \/ Extract \/ Embed \/ Zip \/ Upload \/ Update \/ Finish

Spec == InitMain /\ [][Next]_vars

-----------------------------------------------------------------------------
(* QdrantUploader on its own: uploaders constructed on a store, batches     *)
(* uploaded through them                                                    *)

\* largest number of QdrantUploaders constructed on a store
MaxUploaders == 3

\* a point of the given id and vector
StorePoint(id, vector) == [id |-> id, vector |-> vector, payload |-> OldPoint.payload]

\* the objects of the upload_batch calls: none, one, or two with or without
\* the same id
StoreObjects ==
    LET objects == {StorePoint(AnnId(1), ZeroVector),
                    StorePoint(AnnId(1), [n \in 1..VectorSize |-> 1]),
                    StorePoint(AnnId(2), ZeroVector)}
    IN  {<<>>} \cup Lists(objects, 1) \cup Lists(objects, 2)

\* any of the two collections may be there already, with one point
InitStore ==
    /\ use_segmentation = FALSE
    /\ file = MissingFile
    /\ image = NoImage
    /\ bbox = NoneList
    /\ segmentation = NoneList
    /\ mask = {}
    /\ mode = "none"
    /\ result = NoRegion
    /\ loads = 0
    /\ cpc = "idle"
    /\ LoopIdle
    /\ ParseIdle
    /\ store \in [Names -> {NoCollection, OldStore[CollectionName]}]
    /\ creates = <<>>
    /\ constructed = <<>>

\* QdrantUploader(collection_name=name, ...)
Construct ==
    /\ Len(constructed) < MaxUploaders
    /\ \E name \in Names : NewUploader(name, VectorSize)
    /\ UNCHANGED <<cropVars, loopVars, parseVars>>

\* upload_batch(objects) on one of the uploaders
StoreUpload ==
    /\ \E k \in 1..Len(constructed), objects \in StoreObjects :
          store' = IF Len(objects) = 0
                   THEN store
                   ELSE Upsert(store, constructed[k], PointStructs(objects))
    /\ UNCHANGED <<cropVars, loopVars, creates, constructed, parseVars>>

NextStore == Construct \/ StoreUpload

SpecStore == InitStore /\ [][NextStore]_vars

-----------------------------------------------------------------------------
(* CocoParser on its own: the methods called on a parser of some file *)

\* largest number of annotations of a file given to the parser
MaxRecords == 2

\* the image lists of the files: the last one has an image without id
ParserImages ==
    {<<>>,
     <<[id |-> 1, file_name |-> "a.jpg"]>>,
     <<[id |-> 1, file_name |-> "a.jpg"], [id |-> 2, file_name |-> "b.jpg"]>>,
     <<[id |-> 1, file_name |-> "a.jpg"], [file_name |-> "c.jpg"]>>}

\* the category lists of the files: one has two categories of the same id,
\* the last one a category without id
ParserCategories ==
    {<<[id |-> 1, name |-> "cat"]>>,
     <<[id |-> 1, name |-> "cat"], [id |-> 2, name |-> "dog"]>>,
     <<[id |-> 2, name |-> "dog"], [id |-> 1, name |-> "cat"], [id |-> 2, name |-> "wolf"]>>,
     <<[id |-> 1, name |-> "cat"], [name |-> "bird"]>>}

\* the annotations of the files, their ids left open: references to the
\* images 1 to 3 and the categories 1 and 2, and annotations without
\* image_id, without category_id, without id
ParserTemplates ==
    {[id |-> 0, image_id |-> 1, category_id |-> 1],
     [id |-> 0, image_id |-> 2, category_id |-> 1],
     [id |-> 0, image_id |-> 1, category_id |-> 2],
     [id |-> 0, image_id |-> 3, category_id |-> 1],
     [id |-> 0, category_id |-> 1],
     [id |-> 0, image_id |-> 1],
     [image_id |-> 1, category_id |-> 1]}

\* the k-th annotation of a file from its template
ParserAnnotation(t, k) == IF "id" \in DOMAIN t THEN [t EXCEPT !.id = AnnId(k)] ELSE t

ParserAnnotations ==
    UNION {{[k \in 1..n |-> ParserAnnotation(ts[k], k)] : ts \in [1..n -> ParserTemplates]} :
           n \in 0..MaxRecords}

\* the JSON objects of the files: the three keys and one more, or one of
\* the three keys missing
ParserObjects ==
    {[info |-> "2024", images |-> imgs, annotations |-> anns, categories |-> cats] :
        imgs \in ParserImages, anns \in ParserAnnotations, cats \in ParserCategories}
    \cup {[images |-> <<>>, annotations |-> <<>>],
          [images |-> <<>>, categories |-> <<>>],
          [annotations |-> <<>>, categories |-> <<>>]}

\* the files given to the parser
ParserFiles ==
    {CocoFile(kind, <<>>) : kind \in {"absent", "invalid", "null", "number", "array", "string"}}
    \cup {CocoFile("object", object) : object \in ParserObjects}

\* the ids asked for
QueryIds == 1..3

InitParse ==
    /\ use_segmentation = FALSE
    /\ file = MissingFile
    /\ image = NoImage
    /\ bbox = NoneList
    /\ segmentation = NoneList
    /\ mask = {}
    /\ mode = "none"
    /\ result = NoRegion
    /\ loads = 0
    /\ cpc = "idle"
    /\ LoopIdle
    /\ StoreIdle
    /\ coco_file \in ParserFiles
    /\ query = NoQuery
    /\ answer = Returned(<<>>)

\* parser.parse()
CallParse ==
    /\ query' = [method |-> "parse", id |-> 0]
    /\ answer' = ParseFile(coco_file)
    /\ UNCHANGED <<cropVars, mainVars, coco_file>>

\* parser.get_image_annotations(id)
CallGetImageAnnotations ==
    /\ \E id \in QueryIds :
          /\ query' = [method |-> "get_image_annotations", id |-> id]
          /\ answer' = GetImageAnnotations(coco_file, id)
    /\ UNCHANGED <<cropVars, mainVars, coco_file>>

\* parser.get_category_annotations(id)
CallGetCategoryAnnotations ==
    /\ \E id \in QueryIds :
          /\ query' = [method |-> "get_category_annotations", id |-> id]
          /\ answer' = GetCategoryAnnotations(coco_file, id)
    /\ UNCHANGED <<cropVars, mainVars, coco_file>>

\* parser.get_category_name(id)
CallGetCategoryName ==
    /\ \E id \in QueryIds :
          /\ query' = [method |-> "get_category_name", id |-> id]
          /\ answer' = GetCategoryName(coco_file, id)
    /\ UNCHANGED <<cropVars, mainVars, coco_file>>

NextParse ==
    CallParse \/ CallGetImageAnnotations \/ CallGetCategoryAnnotations \/ CallGetCategoryName

SpecParse == InitParse /\ [][NextParse]_vars

-----------------------------------------------------------------------------
(* Claims about the batch loop of main(), checked under Spec *)

\* the point list of the upsert call made last
LastUpsert == upserts[Len(upserts)]

\* the batch's records have just been handed to the store
BatchUpserted == pc = "update" /\ Len(cropped_objects) > 0

\* position k of a record list holds survivor k's id and element k of the list
\* the embedding call returned for the batch
Aligned(records) ==
    /\ Len(records) = Len(cropped_objects)
    /\ \A k \in 1..Len(records) :
          /\ records[k].id = cropped_objects[k].annotation.id
          /\ k <= Len(embeddings)
          /\ records[k].vector = embeddings[k]

\* C1: in every batch, the record handed to the storage collaborator at
\* position k has the annotation id of survivor k and the k-th vector of the
\* list the embedding collaborator returned for that batch.
C1_PositionalZip ==
    /\ pc = "upload" => Aligned(upload_objects)
    /\ BatchUpserted => Aligned(LastUpsert)

\* a batch of two survivors with two different vectors has been upserted
C1_Witness ==
    /\ BatchUpserted
    /\ Len(cropped_objects) = 2
    /\ embeddings[1] # embeddings[2]
    /\ Len(LastUpsert) = 2
    /\ LastUpsert[1].vector = embeddings[1]
    /\ LastUpsert[2].vector = embeddings[2]

\* C2 (as claimed): when the embedding collaborator returns a list one element
\* longer or shorter than the number of regions requested, the batch fails and
\* no record of it is upserted: no batch is upserted with a vector list of
\* another length than its survivors.
C2_LengthMismatchFailsBatch ==
    BatchUpserted => Len(embeddings) = Len(cropped_objects)

\* the extraction of an annotation fails in the sense of the design: its
\* source image cannot be loaded, it has no usable geometry, or its region is
\* degenerate (a box clamped to less than one pixel, a mask with no pixel)
ExtractionFails(ann) ==
    LET f   == ImagesDir(Images[CHOOSE k \in 1..Len(Images) : Images[k].id = ann.image_id].file_name)
        img == LoadImage(f)
        m   == CropMode(use_segmentation, img, ann.bbox, ann.segmentation)
    IN  \/ ~img.ok
        \/ m = "none"
        \/ /\ m = "bbox"
           /\ \/ ClampSize(ann.bbox.v[3], img.width, ClampOrigin(ann.bbox.v[1])) < 1
              \/ ClampSize(ann.bbox.v[4], img.height, ClampOrigin(ann.bbox.v[2])) < 1
        \/ m = "segmentation" /\ MaskOf(img, ann.segmentation.v) = {}

\* the ids of all the records the store received
UpsertedIds == UNION {{upserts[c][k].id : k \in 1..Len(upserts[c])} : c \in 1..Len(upserts)}

\* C3 (as claimed): an annotation whose extraction fails (image not loadable,
\* no usable geometry, degenerate region) is dropped and every other
\* annotation is embedded and upserted: after a run that processed all its
\* batches the upserted ids are those of the annotations whose extraction did
\* not fail.
C3_FailedExtractionsDropped ==
    pc = "done" /\ exit_code = 0 /\ printed >= 0 /\ batch_size > 0 =>
        UpsertedIds = {coco_data.annotations[k].id :
                         k \in {n \in 1..total_objects : ~ExtractionFails(coco_data.annotations[n])}}

\* C4 (as claimed): the number the final summary reports as successfully
\* processed is the number of annotations for which a record was upserted
\* (attempted = succeeded + skipped).
C4_SummaryCountsUpserted ==
    pc = "done" /\ exit_code = 0 /\ printed >= 0 /\ batch_size > 0 =>
        printed = Cardinality(UpsertedIds)

\* the log entries of a phase
Entries(phase) == {k \in 1..Len(log) : log[k].phase = phase}

\* the extraction of batch b left no survivor
NoSurvivor(b) ==
    \E k \in Entries("Extracting") : log[k].batch = b /\ log[k].ids = <<>>

\* the extraction of the current batch has just ended without a survivor
JustExtractedNone ==
    /\ Len(log) > 0
    /\ log[Len(log)].phase = "Extracting"
    /\ log[Len(log)].ids = <<>>

\* C12: for a batch in which every extraction failed, neither
\* generate_embeddings nor upload_batch is called, and the run goes on: it
\* counts the batch, takes the next one, and ends with 0 when none is left.
C12_EmptyBatchSkipsCollaborators ==
    /\ \A k \in Entries("Embedding") \cup Entries("Uploading") : ~NoSurvivor(log[k].batch)
    /\ pc \in {"embed", "zip", "upload"} => Len(cropped_objects) > 0
    /\ JustExtractedNone =>
          /\ pc \in {"update", "loop", "done"}
          /\ pc = "update" => exit_code = -1 /\ Len(upserts) = Cardinality(Entries("Uploading"))
          /\ pc = "loop" => exit_code = -1 /\ pbar = Min(next_i, total_objects)
          /\ pc = "done" => exit_code = 0 /\ ~MoreBatches /\ error = ""

\* the first batch had no survivor, the second one has been uploaded
C12_Witness ==
    /\ NoSurvivor(1)
    /\ BatchNo = 2
    /\ BatchUpserted
    /\ Entries("Embedding") # {}
    /\ \A k \in Entries("Embedding") \cup Entries("Uploading") : log[k].batch = 2

\* one zero vector of the configured size per survivor of the batch
AllZero(vectors) ==
    /\ Len(vectors) = Len(cropped_objects)
    /\ \A k \in 1..Len(vectors) :
          /\ Len(vectors[k]) = VectorSize
          /\ \A n \in 1..VectorSize : vectors[k][n] = 0

\* the embedding call of the current batch was made, and jinaai.embed raised
ServiceFailed ==
    /\ service_raised
    /\ \E k \in Entries("Embedding") : log[k].batch = BatchNo

\* C14: when the embedding service call fails for the n images of a batch,
\* generate_embeddings returns n vectors of the configured size, all zeros,
\* and raises nothing; main then hands upload_batch one record per survivor
\* of the batch, and once the store has taken them the run goes on to the
\* next batch.
C14_ServiceFailureGivesZeroVectors ==
    /\ ServiceFailed /\ pc \in {"zip", "upload", "update"} => AllZero(embeddings)
    /\ ServiceFailed /\ pc = "zip" => exit_code = -1 /\ error = ""
    /\ ServiceFailed /\ pc = "upload" =>
          /\ exit_code = -1
          /\ AnnotationIds(upload_objects) = SurvivorIds(cropped_objects)
          /\ AllZero([k \in 1..Len(upload_objects) |-> upload_objects[k].vector])
    /\ ServiceFailed /\ pc = "update" =>
          /\ exit_code = -1
          /\ AnnotationIds(LastUpsert) = SurvivorIds(cropped_objects)
          /\ AllZero([k \in 1..Len(LastUpsert) |-> LastUpsert[k].vector])
    /\ ServiceFailed /\ pc = "done" => error \in {"", "UpsertError"}

\* the service failed for a batch of two survivors, both were stored with
\* zero vectors, and the next batch has been taken
C14_Witness ==
    /\ service_raised
    /\ pc = "extract"
    /\ BatchNo = 2
    /\ Len(upserts) = 1
    /\ Len(upserts[1]) = 2
    /\ upserts[1][1].vector = ZeroVector /\ upserts[1][2].vector = ZeroVector

\* C15 (as claimed): every vector of the returned list whose length differs
\* from the configured size, at whatever position, is reported, and its
\* record is still handed to the store: no batch is upserted with a vector of
\* another size unless the warning was printed for the batch.
C15_EveryMismatchReported ==
    BatchUpserted =>
        /\ Len(LastUpsert) = Len(cropped_objects)
        /\ \A k \in 1..Len(LastUpsert) : Len(LastUpsert[k].vector) # VectorSize => warned

\* the place of a phase in the order of a batch
PhaseRank(phase) ==
    CASE phase = "Joining" -> 1
      [] phase = "Extracting" -> 2
      [] phase = "Embedding" -> 3
      [] phase = "Uploading" -> 4

\* the position in the annotation list of the annotation of an id
PositionOf(id) == CHOOSE k \in 1..total_objects : coco_data.annotations[k].id = id

\* C16: the batches are processed one after the other in the order of the
\* annotation list (an entry of the log belongs to the batch of the entry
\* before it, or begins the next batch); a batch goes through Joining,
\* Extracting, Embedding, Uploading in that order; the upload of a batch is over (or was skipped)
\* before the extraction of the next batch begins; every annotation of a batch
\* comes before every annotation of the next batch in the list.
C16_SequentialBatches ==
    /\ \A k \in 1..Len(log) :
          IF log[k].phase = "Joining"
          THEN log[k].batch = (IF k = 1 THEN 1 ELSE log[k - 1].batch + 1)
          ELSE /\ k > 1
               /\ log[k - 1].batch = log[k].batch
               /\ PhaseRank(log[k - 1].phase) < PhaseRank(log[k].phase)
    /\ \A k \in Entries("Uploading") :
          log[k - 1].phase = "Embedding" /\ log[k - 2].phase = "Extracting"
    /\ \A a, b \in Entries("Joining") :
          a < b =>
             \A m \in 1..Len(log[a].ids), n \in 1..Len(log[b].ids) :
                PositionOf(log[a].ids[m]) < PositionOf(log[b].ids[n])
    /\ pc = "extract" =>
          /\ log[Len(log)].phase = "Joining"
          /\ Len(upserts) = Cardinality(Entries("Uploading"))
          /\ \A k \in Entries("Extracting") :
                log[k].ids # <<>> =>
                   /\ k + 2 <= Len(log)
                   /\ log[k + 2].phase = "Uploading"
                   /\ log[k + 2].ids = log[k].ids

\* two batches have gone through the four phases, one after the other
C16_Witness ==
    /\ Len(log) = 8
    /\ log[4].phase = "Uploading" /\ log[4].batch = 1
    /\ log[5].phase = "Joining" /\ log[5].batch = 2
    /\ log[8].phase = "Uploading" /\ log[8].batch = 2
    /\ pc = "update"

\* ceil(n / b) for b >= 1
Ceil(n, b) == (n + b - 1) \div b

\* the annotation ids of the batches begun, one batch after the other
RECURSIVE JoinedIds(_)
JoinedIds(k) ==
    IF k > Len(log) THEN <<>>
    ELSE (IF log[k].phase = "Joining" THEN log[k].ids ELSE <<>>) \o JoinedIds(k + 1)

\* parse returned the annotations of the run's file
Parsed == ParseFile(coco_file).raised = ""

\* C17 (as claimed): for N annotations and a batch size B >= 1, a run in
\* which no collaborator raises (the embedding service's exception is
\* swallowed by generate_embeddings, so only client.upsert can) ends normally
\* after exactly ceil(N / B) batches, each a slice of at most B annotations,
\* the slices laid end to end being the annotation list.
C17_AllBatchesWhenNoCollaboratorRaises ==
    pc = "done" /\ batch_size >= 1 /\ ~skip_existing /\ Parsed /\ error # "UpsertError" =>
        /\ exit_code = 0
        /\ BatchNo = Ceil(total_objects, batch_size)
        /\ \A k \in Entries("Joining") : Len(log[k].ids) \in 1..batch_size
        /\ JoinedIds(1) = AnnotationIds(coco_data.annotations)

\* the ids of a list, as a set
IdSet(ids) == {ids[k] : k \in 1..Len(ids)}

\* C18: the records of a batch reach the store in one upsert call that holds
\* all the survivors of the batch and is made only after the extraction and
\* the embedding of the whole batch; so at every point of a run, also where
\* it aborts, each batch has all of its survivors submitted or none.
C18_BatchAllOrNothing ==
    /\ \A k \in Entries("Uploading") :
          /\ log[k - 1].phase = "Embedding" /\ log[k - 1].batch = log[k].batch
          /\ log[k - 2].phase = "Extracting" /\ log[k - 2].batch = log[k].batch
          /\ log[k].ids = log[k - 2].ids
    /\ Len(upserts) <= Cardinality(Entries("Uploading"))
    /\ \A c \in 1..Len(upserts) :
          \E k \in Entries("Uploading") :
             /\ AnnotationIds(upserts[c]) = log[k].ids
             /\ \A d \in 1..Len(upserts) : AnnotationIds(upserts[d]) = log[k].ids => d = c
    /\ LET stored == UpsertedIds
       IN  \A k \in Entries("Extracting") :
              IdSet(log[k].ids) \subseteq stored \/ IdSet(log[k].ids) \cap stored = {}

\* a run aborted in its second batch: the two survivors of the first batch
\* are stored, the survivor of the second batch is not
C18_Witness ==
    /\ pc = "done" /\ exit_code = 1
    /\ BatchNo = 2
    /\ Len(upserts) = 1 /\ Len(upserts[1]) = 2
    /\ Len(cropped_objects) = 1
    /\ IdSet(SurvivorIds(cropped_objects)) \cap UpsertedIds = {}

\* the record has the id of an annotation of the file and the payload of
\* that annotation, its image and its category
PayloadOf(record) ==
    /\ record.id \in IdSet(AnnotationIds(coco_data.annotations))
    /\ LET ann == coco_data.annotations[PositionOf(record.id)]
       IN  /\ record.payload.image_id = ann.image_id
           /\ record.payload.category_id = ann.category_id
           /\ \E k \in 1..Len(coco_data.images) :
                 /\ coco_data.images[k].id = ann.image_id
                 /\ coco_data.images[k].file_name = record.payload.file_name
           /\ \E k \in 1..Len(coco_data.categories) :
                 /\ coco_data.categories[k].id = ann.category_id
                 /\ coco_data.categories[k].name = record.payload.category_name
           /\ record.payload.bbox = ann.bbox
           /\ record.payload.segmentation = ann.segmentation
           /\ record.payload.area = ann.area
           /\ record.payload.iscrowd = (IF ann.iscrowd.isNone THEN 0 ELSE ann.iscrowd.v)
           /\ DOMAIN record.payload = {"image_id", "file_name", "category_id", "category_name",
                                       "bbox", "segmentation", "area", "iscrowd"}

\* C24: every record handed to the store has the id of its annotation and a
\* payload of that annotation: its image_id and category_id, the file name
\* and the category name of the image and the category of these ids, and the
\* annotation's bbox, segmentation, area and iscrowd (0 when it has none).
C24_PayloadFromAnnotation ==
    /\ pc = "upload" =>
          /\ AnnotationIds(upload_objects) = SurvivorIds(cropped_objects)
          /\ \A k \in 1..Len(upload_objects) : PayloadOf(upload_objects[k])
    /\ BatchUpserted =>
          /\ AnnotationIds(LastUpsert) = SurvivorIds(cropped_objects)
          /\ \A k \in 1..Len(LastUpsert) : PayloadOf(LastUpsert[k])

\* a batch of a cat with iscrowd 1 and a dog with iscrowd 0, both on image 1,
\* has been upserted
C24_Witness ==
    /\ BatchUpserted
    /\ Len(LastUpsert) = 2
    /\ LastUpsert[1].payload.category_name = "cat" /\ LastUpsert[1].payload.iscrowd = 1
    /\ LastUpsert[2].payload.category_name = "dog" /\ LastUpsert[2].payload.iscrowd = 0
    /\ LastUpsert[2].payload.image_id = 1 /\ LastUpsert[2].payload.category_id = 2

\* the region crop_object returns for an annotation of the current batch
RegionOf(ann) == CroppedImage(use_segmentation, coco_data, batch_annotations, ann)

\* the ids of the batch's Embedding entry of the log
EmbeddedIds == log[CHOOSE k \in Entries("Embedding") : log[k].batch = BatchNo].ids

\* C25: after the extraction of a batch cropped_objects holds the
\* annotations of the batch for which crop_object returned a region, each
\* once and in the order of the batch, with that region; the images given
\* to generate_embeddings and the records given to upload_batch are as many
\* and in the same order.
C25_SurvivorsInOrder ==
    pc \in {"embed", "zip", "upload", "update"} =>
        LET regions == [k \in 1..Len(batch_annotations) |-> RegionOf(batch_annotations[k])]
            places  == {k \in 1..Len(batch_annotations) : regions[k].ok}
        IN  /\ Len(cropped_objects) = Cardinality(places)
            /\ \E at \in [1..Len(cropped_objects) -> places] :
                  /\ \A a, b \in 1..Len(cropped_objects) : a < b => at[a] < at[b]
                  /\ \A a \in 1..Len(cropped_objects) :
                        /\ cropped_objects[a].annotation = batch_annotations[at[a]]
                        /\ cropped_objects[a].image = regions[at[a]]
            /\ pc \in {"zip", "upload"} \/ BatchUpserted =>
                  EmbeddedIds = SurvivorIds(cropped_objects)
            /\ pc = "upload" => AnnotationIds(upload_objects) = SurvivorIds(cropped_objects)
            /\ BatchUpserted => AnnotationIds(LastUpsert) = SurvivorIds(cropped_objects)

\* of a batch of two annotations the first gave no region; the second one
\* alone was embedded and upserted
C25_Witness ==
    /\ BatchUpserted
    /\ Len(batch_annotations) = 2
    /\ ~RegionOf(batch_annotations[1]).ok
    /\ SurvivorIds(cropped_objects) = <<batch_annotations[2].id>>
    /\ AnnotationIds(LastUpsert) = <<batch_annotations[2].id>>

\* the ids of the survivors of the batches 1..k, from the log
SurvivorsUpTo(k) ==
    UNION {IdSet(log[e].ids) : e \in {n \in Entries("Extracting") : log[n].batch <= k}}

\* C27: at every point of a run, also where it has aborted on an exception,
\* the ids upserted so far are the ids of the survivors of the batches 1..k
\* for some k, each of them extracted: nothing of a later batch is stored
\* while a batch before it is missing.
C27_UpsertedIsPrefix ==
    LET stored == UpsertedIds
    IN  \E k \in 0..BatchNo :
           /\ \A b \in 1..k : \E e \in Entries("Extracting") : log[e].batch = b
           /\ stored = SurvivorsUpTo(k)

\* the run aborted in its second batch after the survivors of that batch were
\* known: the first batch is stored, the second is not
C27_Witness ==
    /\ pc = "done" /\ exit_code = 1
    /\ BatchNo = 2
    /\ Len(upserts) = 1
    /\ \E e \in Entries("Extracting") : log[e].batch = 2 /\ log[e].ids # <<>>
    /\ UpsertedIds = SurvivorsUpTo(1)
    /\ UpsertedIds # SurvivorsUpTo(2)

\* C28 (as claimed): the run prints "Successfully processed N objects" and
\* returns 0 only if every one of the N annotations was joined and extracted
\* in some batch, for every integer batch size, zero and negative included.
C28_SuccessMeansAllProcessed ==
    pc = "done" /\ exit_code = 0 /\ printed >= 0 =>
        /\ printed = total_objects
        /\ IdSet(JoinedIds(1)) = IdSet(AnnotationIds(coco_data.annotations))
        /\ \A b \in 1..BatchNo : \E e \in Entries("Extracting") : log[e].batch = b

\* every annotation of the data references an image and a category of it
Resolves(data) ==
    \A k \in 1..Len(data.annotations) :
        /\ data.annotations[k].image_id \in IdsOf(data.images)
        /\ data.annotations[k].category_id \in IdsOf(data.categories)

\* parse has returned to main
ParseReturned == pc \notin {"parse", "done"} \/ (pc = "done" /\ constructed # <<>>)

\* C21: parse returns a result only when every annotation's image_id is the
\* id of an image and its category_id the id of a category of the file; for a
\* file with a dangling reference it raises ValueError and returns nothing,
\* so main never constructs an uploader or begins a batch on such data.
C21_ParseGuardsReferences ==
    /\ ParseReturned =>
          /\ Resolves(coco_file.value)
          /\ Resolves(coco_data)
          /\ coco_data.annotations = coco_file.value.annotations
    /\ pc # "parse" /\ ~Resolves(coco_file.value) =>
          /\ pc = "done" /\ exit_code = 1 /\ error = "ValueError"
          /\ coco_data.annotations = <<>>
          /\ constructed = <<>> /\ log = <<>> /\ upserts = <<>>
    /\ log # <<>> => JoinOk(coco_data, batch_annotations)

\* a file of two annotations, the second with a category id of no category:
\* the run has ended with 1
C21_Witness ==
    /\ pc = "done" /\ exit_code = 1 /\ error = "ValueError"
    /\ Len(coco_file.value.annotations) = 2
    /\ coco_file.value.annotations[1].category_id \in IdsOf(coco_file.value.categories)
    /\ coco_file.value.annotations[2].image_id \in IdsOf(coco_file.value.images)
    /\ coco_file.value.annotations[2].category_id \notin IdsOf(coco_file.value.categories)
    /\ log = <<>>

-----------------------------------------------------------------------------
(* Claims about QdrantUploader, checked under SpecStore *)

\* C19: constructing a QdrantUploader creates the collection only if it is
\* absent: for a name that exists nothing is created and the store, the
\* collection's points included, stays as it was; for a name that is absent
\* the collection is created once, empty, and collection_exists() is true
\* afterwards; no other collection is touched, and no name is ever created
\* twice, so constructing twice is constructing once.
C19_CreateIfAbsent ==
    [][constructed' # constructed =>
          LET name == constructed'[Len(constructed')]
          IN  /\ CollectionExists(store', name)
              /\ \A n \in Names \ {name} : store'[n] = store[n]
              /\ IF store[name].exists
                 THEN store' = store /\ creates' = creates
                 ELSE /\ creates' = Append(creates, name)
                      /\ store'[name].points = {}
              /\ \A a, b \in 1..Len(creates') : creates'[a] = creates'[b] => a = b]_vars

\* two uploaders constructed for the same absent name, points uploaded in
\* between: one creation, the points still there
C19_Witness ==
    /\ Len(constructed) >= 2
    /\ constructed[1] = constructed[2]
    /\ creates = <<constructed[1]>>
    /\ store[constructed[1]].exists
    /\ Cardinality(store[constructed[1]].points) = 2

-----------------------------------------------------------------------------
(* --skip-existing, checked under Spec *)

\* C20 (as claimed): with --skip-existing a run that raised nothing has
\* skipped the processing and returned 0 if the collection existed before the
\* run; if it did not exist (the constructor had to create it) the
\* annotations were processed, batch by batch, and the survivors uploaded.
C20_SkipOnlyWhenExisted ==
    pc = "done" /\ skip_existing /\ error = "" =>
        IF creates = <<>>
        THEN exit_code = 0 /\ log = <<>> /\ upserts = <<>>
        ELSE /\ exit_code = 0
             /\ JoinedIds(1) = AnnotationIds(coco_data.annotations)
             /\ \A k \in Entries("Extracting") : IdSet(log[k].ids) \subseteq UpsertedIds

-----------------------------------------------------------------------------
(* Claims about CocoParser, checked under SpecParse *)

\* the file is JSON, and not both an object and complete: a top-level key
\* is missing
KeyMissing ==
    /\ coco_file.kind \notin {"absent", "invalid"}
    /\ \E key \in RequiredKeys : ~HasKey(coco_file, key)

\* the file is an object with the three keys
Complete == coco_file.kind = "object" /\ \A key \in RequiredKeys : HasKey(coco_file, key)

\* a record of the file lacks a field the validation reads of it
FieldMissing ==
    /\ Complete
    /\ \/ LacksField(coco_file.value.images, "id")
       \/ LacksField(coco_file.value.categories, "id")
       \/ LacksField(coco_file.value.annotations, "image_id")
       \/ LacksField(coco_file.value.annotations, "category_id")

\* a complete file whose records have their fields and whose annotations
\* reference images and categories of the file
WellFormed == Complete /\ ~FieldMissing /\ Resolves(coco_file.value)

\* C22 (as claimed): parse raises ValueError, and nothing else, whenever the
\* file is not valid JSON, whenever one of the keys 'images', 'annotations',
\* 'categories' is missing at the top level, and whenever a record lacks a
\* field the validation reads; on a well-formed file it returns the three
\* lists and nothing more, the records as they are in the file.
C22_ParseRaisesValueError ==
    query.method = "parse" =>
        /\ coco_file.kind = "invalid" \/ KeyMissing \/ FieldMissing =>
              answer.raised = "ValueError"
        /\ WellFormed =>
              /\ answer.raised = ""
              /\ DOMAIN answer.value = RequiredKeys
              /\ \A key \in RequiredKeys : answer.value[key] = coco_file.value[key]

\* the places of the list whose element has the value in the field
Places(list, field, value) == {k \in 1..Len(list) : list[k][field] = value}

\* the answer is the elements of the list at the places, each once, in the
\* order of the list
Selects(list, places) ==
    /\ Len(answer.value) = Cardinality(places)
    /\ \E at \in [1..Len(answer.value) -> places] :
          /\ \A a, b \in 1..Len(answer.value) : a < b => at[a] < at[b]
          /\ \A a \in 1..Len(answer.value) : answer.value[a] = list[at[a]]

\* C23: on a file parse accepts, get_image_annotations(id) and
\* get_category_annotations(id) return the annotations whose image_id
\* (category_id) is the id, each once and in file order, the empty list when
\* there is none; get_category_name(id) returns the name of a category of
\* that id and raises ValueError when no category has it.
C23_GettersSelect ==
    ParseFile(coco_file).raised = "" =>
        /\ query.method = "get_image_annotations" =>
              /\ answer.raised = ""
              /\ Selects(coco_file.value.annotations,
                         Places(coco_file.value.annotations, "image_id", query.id))
        /\ query.method = "get_category_annotations" =>
              /\ answer.raised = ""
              /\ Selects(coco_file.value.annotations,
                         Places(coco_file.value.annotations, "category_id", query.id))
        /\ query.method = "get_category_name" =>
              IF Places(coco_file.value.categories, "id", query.id) = {}
              THEN answer.raised = "ValueError"
              ELSE /\ answer.raised = ""
                   /\ \E k \in Places(coco_file.value.categories, "id", query.id) :
                         answer.value = coco_file.value.categories[k].name

\* of two annotations the second one is on image 1: it alone is returned
C23_Witness ==
    /\ query = [method |-> "get_image_annotations", id |-> 1]
    /\ answer.raised = ""
    /\ Len(coco_file.value.annotations) = 2
    /\ coco_file.value.annotations[1].image_id = 2
    /\ answer.value = <<coco_file.value.annotations[2]>>

=============================================================================
